---- MODULE Spec2Model ----
(***************************************************************************)
(* Model of news_digest.py: the text helpers, the date parser, the two     *)
(* summarizers and the fetch_news aggregation pipeline.                     *)
(*                                                                         *)
(* Text is a sequence of one-character strings.  A datetime is a number of *)
(* half-second ticks since 2024-01-01T00:00:00 UTC; every time of the      *)
(* model lies within January 2024.  An optional datetime (None or a value) *)
(* is a sequence of length 0 or 1.                                          *)
(***************************************************************************)
EXTENDS Integers, Sequences, FiniteSets, TLC

VARIABLES pc, days, limit, use_g4f, cutoff, fi, all_news, nproc, last, bozo,
          result, text, max_sentences, max_chars, outcome, out

vars == <<pc, days, limit, use_g4f, cutoff, fi, all_news, nproc, last, bozo,
          result, text, max_sentences, max_chars, outcome, out>>

pipeVars == <<days, limit, use_g4f, cutoff, fi, all_news, nproc, last, bozo, result>>
pureVars == <<text, max_sentences, max_chars, outcome, out>>

----------------------------------------------------------------------------
(* Bounds of the model. *)

MaxFeeds == 2
MaxEntries == 2
MaxDays == 1
MaxLimit == 2
MaxLen == 4
MaxCap == 4

(* Defaults of fetch_news. *)
DefaultDays == 7
DefaultLimit == 7

(* Defaults of summarize_naive. *)
DefaultMaxSentences == 2
DefaultMaxChars == 300

----------------------------------------------------------------------------
(* Characters and strings. *)

Min(a, b) == IF a < b THEN a ELSE b

Ord(c) ==
    CASE c = " " -> 32 [] c = "+" -> 43 [] c = "-" -> 45 [] c = "." -> 46
      [] c = "0" -> 48 [] c = "1" -> 49 [] c = "2" -> 50 [] c = "3" -> 51
      [] c = "4" -> 52 [] c = "5" -> 53 [] c = "6" -> 54 [] c = "7" -> 55
      [] c = "8" -> 56 [] c = "9" -> 57 [] c = ":" -> 58 [] c = "T" -> 84
      [] c = "k" -> 107 [] c = "n" -> 110 [] c = "o" -> 111
      [] c = "u" -> 117 [] c = "w" -> 119

(* Python's str ordering: lexicographic by code point, a proper prefix is *)
(* the smaller string.                                                    *)
RECURSIVE StrLess(_, _)
StrLess(a, b) ==
    IF a = <<>> THEN b # <<>>
    ELSE IF b = <<>> THEN FALSE
    ELSE IF Ord(Head(a)) # Ord(Head(b)) THEN Ord(Head(a)) < Ord(Head(b))
    ELSE StrLess(Tail(a), Tail(b))

IsSpace(c) == c = " "

RECURSIVE lstrip(_)
lstrip(s) == IF s # <<>> /\ IsSpace(Head(s)) THEN lstrip(Tail(s)) ELSE s

RECURSIVE rstrip(_)
rstrip(s) ==
    IF s # <<>> /\ IsSpace(s[Len(s)]) THEN rstrip(SubSeq(s, 1, Len(s) - 1)) ELSE s

strip(s) == lstrip(rstrip(s))

(* re.sub(r"\s+", " ", s): every run of whitespace becomes one space. *)
RECURSIVE CollapseWS(_)
CollapseWS(s) ==
    IF s = <<>> THEN <<>>
    ELSE IF IsSpace(Head(s)) THEN <<" ">> \o CollapseWS(lstrip(s))
    ELSE <<Head(s)>> \o CollapseWS(Tail(s))

(* strip_html on markup-free text: the text of the single text node,      *)
(* stripped, whitespace runs collapsed, stripped again.                   *)
strip_html(html) ==
    IF html = <<>> THEN <<>> ELSE strip(CollapseWS(strip(html)))

(* a or b, for strings. *)
OrStr(a, b) == IF a # <<>> THEN a ELSE b

----------------------------------------------------------------------------
(* Dates. *)

TicksPerSecond == 1 + 1
TicksPerHour == 3600 * TicksPerSecond
TicksPerDay == 24 * TicksPerHour

Digits == <<"0", "1", "2", "3", "4", "5", "6", "7", "8", "9">>
Digit(n) == Digits[n + 1]
TwoDigits(n) == <<Digit(n \div 10), Digit(n % 10)>>

(* datetime.isoformat() of a UTC-aware datetime: the fraction is printed  *)
(* only when the microsecond is not zero.                                 *)
isoformat(t) ==
    LET s  == t \div TicksPerSecond
        us == (t % TicksPerSecond) * 5
    IN  <<"2", "0", "2", "4", "-", "0", "1", "-">>
        \o TwoDigits(s \div 86400 + 1) \o <<"T">>
        \o TwoDigits((s \div 3600) % 24) \o <<":">>
        \o TwoDigits((s \div 60) % 60) \o <<":">>
        \o TwoDigits(s % 60)
        \o (IF us # 0 THEN <<".", Digit(us), "0", "0", "0", "0", "0">> ELSE <<>>)
        \o <<"+", "0", "0", ":", "0", "0">>

UNKNOWN == <<"u", "n", "k", "n", "o", "w", "n">>

(* A date string is modelled by what dateutil reads in it: nothing (the   *)
(* empty string), no date ("junk"), a naive local time, or a local time   *)
(* with a UTC offset in hours.                                            *)
EmptyDate == [kind |-> "empty", local |-> 0, off |-> 0]
JunkDate == [kind |-> "junk", local |-> 0, off |-> 0]
NaiveDate(t) == [kind |-> "naive", local |-> t, off |-> 0]
AwareDate(t, h) == [kind |-> "aware", local |-> t, off |-> h]

OrDate(a, b) == IF a.kind # "empty" THEN a ELSE b

(* variant: an unparsable string is read as the parser's default datetime *)
parse_datetime_default(dt_str) ==
    IF dt_str.kind = "empty" THEN <<>>
    ELSE IF dt_str.kind = "junk" THEN <<dt_str.local>>
    ELSE IF dt_str.kind = "naive" THEN <<dt_str.local>>
    ELSE <<dt_str.local - dt_str.off * TicksPerHour>>

parse_datetime(dt_str) ==
    IF dt_str.kind = "empty" THEN <<>>
    ELSE IF dt_str.kind = "junk" THEN <<>>
    ELSE IF dt_str.kind = "naive" THEN <<dt_str.local>>
    ELSE <<dt_str.local - dt_str.off * TicksPerHour>>

----------------------------------------------------------------------------
(* Summarizers. *)

IsTerminal(c) == c \in {".", "!", "?"}

(* re.split(r"(?<=[.!?])\s+", text): a separator is a maximal whitespace  *)
(* run that starts right after a sentence terminal.                       *)
SeparatorStarts(t) ==
    {i \in 2..Len(t) : IsSpace(t[i]) /\ IsTerminal(t[i - 1])}

RECURSIVE SplitSentences(_)
SplitSentences(t) ==
    IF SeparatorStarts(t) = {} THEN <<t>>
    ELSE LET i == CHOOSE k \in SeparatorStarts(t) :
                      \A m \in SeparatorStarts(t) : k <= m
         IN  <<SubSeq(t, 1, i - 1)>>
             \o SplitSentences(lstrip(SubSeq(t, i, Len(t))))

RECURSIVE JoinSpace(_)
JoinSpace(ss) ==
    IF ss = <<>> THEN <<>>
    ELSE IF Len(ss) = 1 THEN ss[1]
    ELSE ss[1] \o <<" ">> \o JoinSpace(Tail(ss))

(* s[:n] for n >= 0. *)
Take(s, n) == SubSeq(s, 1, Min(n, Len(s)))

Ellipsis == <<".", ".", ".">>

summarize_naive(t, maxSentences, maxChars) ==
    IF t = <<>> THEN <<>>
    ELSE LET sentences == SplitSentences(t)
             summary   == JoinSpace(Take(sentences, maxSentences))
         IN  IF Len(summary) > maxChars
             THEN rstrip(Take(summary, maxChars - 1)) \o Ellipsis
             ELSE summary

(* The outcome of the g4f service for one call: the import fails, the     *)
(* call raises, or the call returns a response.                           *)
ImportError == [kind |-> "import_error", response |-> <<>>]
CallError == [kind |-> "call_error", response |-> <<>>]
Response(r) == [kind |-> "ok", response |-> r]

(* variant: a failed call returns the text as it is *)
summarize_with_g4f_raw(t, o) ==
    IF o.kind = "import_error" THEN summarize_naive(t, DefaultMaxSentences, DefaultMaxChars)
    ELSE IF o.kind = "ok" THEN strip(o.response)
    ELSE t

summarize_with_g4f(t, o) ==
    IF o.kind = "import_error" THEN summarize_naive(t, DefaultMaxSentences, DefaultMaxChars)
    ELSE IF o.kind = "ok" THEN strip(o.response)
    ELSE summarize_naive(t, DefaultMaxSentences, DefaultMaxChars)

----------------------------------------------------------------------------
(* Configuration: FEEDS in iteration order (category, then source). *)

FEEDS == <<
    [category |-> "Marketing", source |-> <<"M","a","r","k","e","t","i","n","g"," ","D","i","v","e">>],
    [category |-> "Marketing", source |-> <<"H","u","b","S","p","o","t"," ","B","l","o","g">>],
    [category |-> "Technology", source |-> <<"T","e","c","h","C","r","u","n","c","h">>],
    [category |-> "Technology", source |-> <<"T","h","e"," ","V","e","r","g","e">>],
    [category |-> "Advertising", source |-> <<"A","d","w","e","e","k">>],
    [category |-> "Advertising", source |-> <<"C","a","m","p","a","i","g","n"," ","U","S">>],
    [category |-> "AI", source |-> <<"V","e","n","t","u","r","e","B","e","a","t"," ","-"," ","A","I">>],
    [category |-> "AI", source |-> <<"T","h","e"," ","D","e","c","o","d","e","r">>],
    [category |-> "Social", source |-> <<"S","o","c","i","a","l"," ","M","e","d","i","a"," ","T","o","d","a","y">>],
    [category |-> "Social", source |-> <<"M","a","s","h","a","b","l","e"," ","-"," ","S","o","c","i","a","l"," ","M","e","d","i","a">>]
>>

NumFeeds == Min(MaxFeeds, Len(FEEDS))

----------------------------------------------------------------------------
(* Inputs: what the feeds and the clock can deliver. *)

(* datetime.now(timezone.utc): 2024-01-10T12:00:00.500000+00:00 *)
NowTick == 9 * TicksPerDay + 12 * TicksPerHour + 1

(* exactly one day before now *)
DateA == NaiveDate(NowTick - TicksPerDay)
(* 2024-01-09T13:00:00+02:00, that is 11:00:00 UTC *)
DateB == AwareDate(8 * TicksPerDay + 13 * TicksPerHour, 2)

Times == {parse_datetime(DateA)[1], parse_datetime(DateB)[1]}

Titles == {<<>>, <<"A">>, <<"B", " ">>}
DescS == <<"a", ".", " ", "b", ".", " ", "c">>
DescD == <<"d">>
DescPairs == {<<<<>>, <<>>>>, <<DescS, DescD>>}
DatePairs == {<<EmptyDate, EmptyDate>>, <<JunkDate, DateA>>,
              <<EmptyDate, DateB>>, <<DateA, DateB>>}
Links == {<<"l">>}

RawEntries ==
    {[title |-> t, summary |-> d[1], description |-> d[2],
      published |-> p[1], updated |-> p[2], link |-> l] :
        t \in Titles, d \in DescPairs, p \in DatePairs, l \in Links}

NoCall == [kind |-> "none", response |-> <<>>]
Outcomes == {ImportError, CallError, Response(<<"r", " ">>)}

----------------------------------------------------------------------------
(* fetch_news *)

Desc(e) == strip_html(OrStr(e.summary, e.description))
DateOf(e) == parse_datetime(OrDate(e.published, e.updated))

(* cutoff = now - timedelta(days=days) *)
Cutoff(now, d) == now - d * TicksPerDay

(* variant: an entry dated exactly at the cutoff is dropped too *)
TooOldInclusive(dt, c) == dt # <<>> /\ dt[1] <= c

(* the recency filter: dt and dt < cutoff *)
TooOld(dt, c) == dt # <<>> /\ dt[1] < c

Item(e, f, o) ==
    LET dt == DateOf(e)
    IN  [title    |-> strip_html(e.title),
         summary  |-> IF o.kind = "none"
                      THEN summarize_naive(Desc(e), DefaultMaxSentences, DefaultMaxChars)
                      ELSE summarize_with_g4f(Desc(e), o),
         date     |-> IF dt # <<>> THEN isoformat(dt[1]) ELSE UNKNOWN,
         source   |-> FEEDS[f].source,
         link     |-> e.link,
         category |-> FEEDS[f].category]

(* sha256 of title + source, taken as injective on the concatenation *)
Key(n) == n.title \o n.source

(* variant: every item is kept *)
DedupKeepAll(news, seen, unique) == unique \o news

RECURSIVE DedupFrom(_, _, _)
DedupFrom(news, seen, unique) ==
    IF news = <<>> THEN unique
    ELSE LET n == Head(news)
         IN  IF Key(n) \notin seen
             THEN DedupFrom(Tail(news), seen \cup {Key(n)}, Append(unique, n))
             ELSE DedupFrom(Tail(news), seen, unique)

Dedup(news) == DedupFrom(news, {}, <<>>)

(* list.sort(key=date, reverse=True): stable, equal keys keep their order *)
RECURSIVE InsertDesc(_, _)
InsertDesc(sorted, x) ==
    IF sorted = <<>> THEN <<x>>
    ELSE IF StrLess(Head(sorted).date, x.date) THEN <<x>> \o sorted
    ELSE <<Head(sorted)>> \o InsertDesc(Tail(sorted), x)

RECURSIVE SortDesc(_)
SortDesc(s) ==
    IF s = <<>> THEN <<>>
    ELSE InsertDesc(SortDesc(SubSeq(s, 1, Len(s) - 1)), s[Len(s)])

(* variant: one item too many *)
TruncateOneMore(s, n) == Take(s, n + 1)

(* unique[:limit], limit >= 0 *)
Truncate(s, n) == Take(s, n)

(* the state of a call fetch_news(d, l, g) after lines 94-95 *)
Called(d, l, g) ==
    /\ pc = "fetch"
    /\ days = d
    /\ limit = l
    /\ use_g4f = g
    /\ cutoff = Cutoff(NowTick, d)
    /\ fi = 1
    /\ all_news = <<>>
    /\ nproc = 0
    /\ last = <<>>
    /\ bozo = {}
    /\ result = <<>>
    /\ text = <<>> /\ max_sentences = DefaultMaxSentences
    /\ max_chars = DefaultMaxChars /\ outcome = NoCall /\ out = <<>>

(* fetch_news(days, limit): any window and limit, the naive summarizer *)
Init == \E d \in 0..MaxDays, l \in 0..MaxLimit : Called(d, l, FALSE)

(* fetch_news(use_g4f=True): the default window and limit, the g4f summarizer *)
InitG4f == Called(DefaultDays, DefaultLimit, TRUE)

(* variant: a failed fetch ends the run *)
FetchFeedAbort ==
    /\ pc = "fetch" /\ fi <= NumFeeds
    /\ \E ok \in BOOLEAN :
         IF ok
         THEN pc' = "entries" /\ fi' = fi /\ bozo' = bozo
         ELSE pc' = "aborted" /\ fi' = fi /\ bozo' = bozo \cup {fi}
    /\ UNCHANGED <<days, limit, use_g4f, cutoff, all_news, nproc, last, result>>
    /\ UNCHANGED pureVars

(* feedparser.parse(url): a feed that cannot be fetched or parsed comes   *)
(* back with no entries, and the inner loop does not run.                 *)
FetchFeed ==
    /\ pc = "fetch" /\ fi <= NumFeeds
    /\ \E ok \in BOOLEAN :
         IF ok
         THEN pc' = "entries" /\ fi' = fi /\ bozo' = bozo
         ELSE pc' = "fetch" /\ fi' = fi + 1 /\ bozo' = bozo \cup {fi}
    /\ UNCHANGED <<days, limit, use_g4f, cutoff, all_news, nproc, last, result>>
    /\ UNCHANGED pureVars

(* one iteration of the loop over feed.entries *)
ProcessEntry ==
    /\ pc = "entries" /\ nproc < MaxEntries
    /\ \E e \in RawEntries :
         IF strip_html(e.title) = <<>> \/ TooOld(DateOf(e), cutoff)
         THEN /\ last' = <<[entry |-> e, feed |-> fi, outcome |-> NoCall, kept |-> FALSE]>>
              /\ all_news' = all_news
         ELSE \E o \in (IF use_g4f THEN Outcomes ELSE {NoCall}) :
              /\ last' = <<[entry |-> e, feed |-> fi, outcome |-> o, kept |-> TRUE]>>
              /\ all_news' = Append(all_news, Item(e, fi, o))
    /\ nproc' = nproc + 1
    /\ UNCHANGED <<pc, days, limit, use_g4f, cutoff, fi, bozo, result>>
    /\ UNCHANGED pureVars

(* feed.entries is exhausted *)
EndFeed ==
    /\ pc = "entries"
    /\ pc' = "fetch" /\ fi' = fi + 1
    /\ UNCHANGED <<days, limit, use_g4f, cutoff, all_news, nproc, last, bozo, result>>
    /\ UNCHANGED pureVars

(* all feeds are done: deduplicate, sort, truncate, return *)
Finish ==
    /\ pc = "fetch" /\ fi > NumFeeds
    /\ result' = Truncate(SortDesc(Dedup(all_news)), limit)
    /\ pc' = "done"
    /\ UNCHANGED <<days, limit, use_g4f, cutoff, fi, all_news, nproc, last, bozo>>
    /\ UNCHANGED pureVars

Next == FetchFeed \/ ProcessEntry \/ EndFeed \/ Finish

Spec == Init /\ [][Next]_vars

SpecG4f == InitG4f /\ [][Next]_vars

----------------------------------------------------------------------------
(* The summarizers on their own: one call on a text drawn from all texts  *)
(* of at most MaxLen characters, and on one text longer than the default  *)
(* cap.                                                                   *)

Alphabet == {"a", " ", "."}

RECURSIVE TextsUpTo(_)
TextsUpTo(n) ==
    IF n = 0 THEN {<<>>}
    ELSE LET shorter == TextsUpTo(n - 1)
         IN  shorter \cup {Append(t, c) : t \in shorter, c \in Alphabet}

LongText == [i \in 1..(DefaultMaxChars + 1) |-> "a"]

Texts == TextsUpTo(MaxLen) \cup {LongText}

InitSum ==
    /\ pc = "call"
    /\ text \in Texts
    /\ max_sentences \in 1..DefaultMaxSentences
    /\ max_chars \in (1..MaxCap) \cup {DefaultMaxChars}
    /\ outcome = NoCall
    /\ out = <<>>
    /\ days = 0 /\ limit = 0 /\ use_g4f = FALSE /\ cutoff = NowTick /\ fi = 1
    /\ all_news = <<>> /\ nproc = 0 /\ last = <<>> /\ bozo = {} /\ result = <<>>

CallNaive ==
    /\ pc = "call"
    /\ out' = summarize_naive(text, max_sentences, max_chars)
    /\ pc' = "naive"
    /\ UNCHANGED <<text, max_sentences, max_chars, outcome>>
    /\ UNCHANGED pipeVars

CallG4f ==
    /\ pc = "call"
    /\ \E o \in Outcomes :
         /\ outcome' = o
         /\ out' = summarize_with_g4f(text, o)
    /\ pc' = "g4f"
    /\ UNCHANGED <<text, max_sentences, max_chars>>
    /\ UNCHANGED pipeVars

NextSum == CallNaive \/ CallG4f

SpecSum == InitSum /\ [][NextSum]_vars

----------------------------------------------------------------------------
(* Properties. *)

Dated(n) == n.date # UNKNOWN
TimeOf(n) == CHOOSE t \in Times : isoformat(t) = n.date
Unique == Dedup(all_news)
SamePair(a, b) == a.title = b.title /\ a.source = b.source
LastEntry == last[1].entry
LastItem == all_news[Len(all_news)]
HasTitle(e) == strip_html(e.title) # <<>>
InResult(n) == \E k \in 1..Len(result) : result[k] = n

(* C1: the returned list is sorted by date, most recent first, and every *)
(* item dated "unknown" comes after every item that has a parsed date.   *)
C1_SortedUnknownLast ==
    pc = "done" =>
        \A i, j \in 1..Len(result) :
            i < j =>
                /\ ~(~Dated(result[i]) /\ Dated(result[j]))
                /\ (Dated(result[i]) /\ Dated(result[j])
                        => TimeOf(result[i]) >= TimeOf(result[j]))

(* C2: the returned list holds at most one item per (title, source), and *)
(* the item it holds for a pair is the first item built for that pair.   *)
C2_OnePerPairFirstSeen ==
    pc = "done" =>
        /\ \A i, j \in 1..Len(result) :
               i < j => ~SamePair(result[i], result[j])
        /\ \A k \in 1..Len(result) :
               \E i \in 1..Len(all_news) :
                   /\ all_news[i] = result[k]
                   /\ \A j \in 1..(i - 1) : ~SamePair(all_news[j], result[k])

C2_Witness ==
    /\ pc = "done"
    /\ \E i, j \in 1..Len(all_news) :
           /\ i < j
           /\ SamePair(all_news[i], all_news[j])
           /\ all_news[i] # all_news[j]
           /\ InResult(all_news[i])
           /\ ~InResult(all_news[j])

(* C3: the returned list has at most limit items, none when limit is 0.  *)
C3_AtMostLimit ==
    pc = "done" =>
        /\ Len(result) <= limit
        /\ (limit = 0 => result = <<>>)

C3_Witness ==
    /\ pc = "done"
    /\ Len(Unique) > limit
    /\ Len(result) = limit

(* C4: when more deduplicated items exist than limit, the returned list  *)
(* is exactly the limit most recent ones: no omitted item with a parsed  *)
(* date is more recent than a returned item.                             *)
C4_MostRecentKept ==
    (pc = "done" /\ Len(Unique) > limit) =>
        /\ Len(result) = limit
        /\ \A i \in 1..Len(Unique) :
               (Dated(Unique[i]) /\ ~InResult(Unique[i])) =>
                   \A k \in 1..Len(result) :
                       /\ Dated(result[k])
                       /\ TimeOf(result[k]) >= TimeOf(Unique[i])

(* C5: no item of an entry dated strictly before the cutoff is built or  *)
(* returned; an entry with a title whose date is at or after the cutoff  *)
(* yields an item, and an item built is returned unless an earlier item  *)
(* has its (title, source) or the limit cuts the list.                   *)
C5_RecencyFilter ==
    /\ \A i \in 1..Len(all_news) :
           Dated(all_news[i]) =>
               \E t \in Times : t >= NowTick - days * TicksPerDay
                                 /\ all_news[i].date = isoformat(t)
    /\ \A k \in 1..Len(result) : \E i \in 1..Len(all_news) : all_news[i] = result[k]
    /\ (last # <<>> /\ DateOf(LastEntry) # <<>>) =>
           IF DateOf(LastEntry)[1] < NowTick - days * TicksPerDay
           THEN ~last[1].kept
           ELSE HasTitle(LastEntry) =>
                   /\ last[1].kept
                   /\ LastItem.title = strip_html(LastEntry.title)
                   /\ LastItem.source = FEEDS[last[1].feed].source
                   /\ LastItem.date = isoformat(DateOf(LastEntry)[1])
    /\ pc = "done" =>
           \A i \in 1..Len(all_news) :
               \/ InResult(all_news[i])
               \/ \E j \in 1..(i - 1) : SamePair(all_news[j], all_news[i])
               \/ Len(Unique) > limit

C5_Witness ==
    /\ pc = "done"
    /\ last # <<>>
    /\ HasTitle(LastEntry)
    /\ DateOf(LastEntry) # <<>>
    /\ DateOf(LastEntry)[1] < cutoff
    /\ days > 0
    /\ \E k \in 1..Len(result) :
           Dated(result[k]) /\ TimeOf(result[k]) = cutoff

(* C6: an entry with a title and a missing or unparsable date string is  *)
(* kept whatever days is, and its item is dated "unknown".               *)
C6_UndatedKept ==
    (last # <<>> /\ HasTitle(LastEntry)
        /\ OrDate(LastEntry.published, LastEntry.updated).kind \in {"empty", "junk"}) =>
        /\ last[1].kept
        /\ LastItem.title = strip_html(LastEntry.title)
        /\ LastItem.source = FEEDS[last[1].feed].source
        /\ LastItem.date = UNKNOWN

C6_Witness ==
    /\ pc = "done"
    /\ days = 0
    /\ last # <<>>
    /\ HasTitle(LastEntry)
    /\ OrDate(LastEntry.published, LastEntry.updated).kind = "junk"
    /\ LastItem.date = UNKNOWN
    /\ InResult(LastItem)

(* C7: when the g4f import or call fails for an entry, the entry is kept *)
(* and its summary is the naive summary of its normalized description.   *)
C7_FallbackToNaive ==
    (last # <<>> /\ last[1].outcome.kind \in {"import_error", "call_error"}) =>
        /\ use_g4f
        /\ last[1].kept
        /\ LastItem.summary =
               summarize_naive(Desc(LastEntry), DefaultMaxSentences, DefaultMaxChars)

C7_Witness ==
    /\ pc = "done"
    /\ last # <<>>
    /\ last[1].outcome.kind = "call_error"
    /\ Desc(LastEntry) # <<>>
    /\ InResult(LastItem)
    /\ LastItem.summary # Desc(LastEntry)

(* C8: an empty text is summarized to the empty string by both           *)
(* summarizers, whether the g4f service answers or fails.                *)
C8_EmptyInEmptyOut ==
    (pc \in {"naive", "g4f"} /\ text = <<>>) => out = <<>>

C10_SummaryBounded ==
    pc = "naive" => Len(out) <= max_chars

====
